---- MODULE Spec2Model ----
(***************************************************************************)
(* The relay hub of server.py: StreamHub, the producer handler uplink and  *)
(* the consumer handler listen_mp3, as tasks of one asyncio event loop.    *)
(* A step of the model is what one task runs between two suspension        *)
(* points (an await that can really suspend).                              *)
(*                                                                         *)
(* Frames are opaque byte strings.  The k-th non-empty frame broadcast is  *)
(* written k (its tag, k >= 1) and has FrameLen(k) bytes; the empty byte   *)
(* string is EmptyData.                                                    *)
(***************************************************************************)
EXTENDS Naturals, Integers, Sequences, FiniteSets, TLC

\* ---------------------------------------------------------------- bounds
\* Frames broadcast in one run of the single-producer system SpecStream
\* (enough to overflow a queue of 16 more than once).
MaxFrames == 18

\* The last reading of the clock, in specifications where time passes.
MaxTime == 3

\* Frames in the specification with the reporter.
ReportRun == 2

\* Frames in the specification with the /stats handler.
StatsRun == 1

\* "ping" messages of a connection.
MaxPings == 2

\* Frames broadcast in one run of the system with competing producers, Spec.
ShortRun == 3

\* The producer connections (uplink handler runs) and consumer connections
\* (listen_mp3 handler runs) of one run; each connects at most once.
Sessions == {"s1", "s2"}
Consumers == {"c1", "c2"}

\* ------------------------------------------------------ program constants
\* asyncio.Queue(maxsize=16)
QueueMaxSize == 16

None == "None"
EmptyData == 0

\* hub.started_at = None, among the integer timestamps.
NoTime == -1

\* time.time() when the process starts: a positive number.
StartTime == 1

\* len(data): frames alternate between two lengths, the empty string has 0.
FrameLen(data) ==
    IF data = EmptyData THEN 0 ELSE 1 + (data % 2)

VARIABLES
    \* StreamHub
    listeners,      \* hub.listeners: the registered queues, named by their consumer
    streamer,       \* hub.streamer: a session's WebSocketResponse, or None
    active,         \* hub.active
    started_at,     \* hub.started_at: NoTime (None) or the time.time() of a first frame
    bytes_total,    \* hub._bytes_total
    \* per listen_mp3 run
    queue,          \* q: the asyncio.Queue of the run, a sequence of frames
    lpc,            \* position of the handler: "idle", "loop", "done"
    tclosed,        \* the consumer's transport is closing (peer went away)
    lexit,          \* how the run left its loop
    \* per uplink run
    upc,            \* position of the handler
    closed,         \* ws.closed
    ack_sent,       \* the local ack_sent
    uexit,          \* how the run left its loop
    \* the process
    now,            \* time.time(), in periods of the stats reporter
    reporter,       \* the streamer_stats_push task: "sleeping", "ready" to run,
                    \* "sending" (suspended in send_json), "stopped"
    cleanup,        \* on_cleanup has run
    \* history
    report,         \* the latest iteration of the reporter: when, to whom,
                    \* what it sent or tried to send
    stats_reply,    \* the latest dict returned by hub.stats()
    pings,          \* per session: "ping" text messages received
    pongs,          \* per session: "pong" text messages written
    pong_phases,    \* per session: whether pongs were written before and
                    \* after the first frame
    nframes,        \* frames broadcast so far (the tag of the newest frame)
    mark,           \* per consumer: the newest frame tag that existed when it
                    \* registered, or the tag it was last written, if later
    consumed,       \* per consumer: it has taken a frame from its queue
    contended,      \* the frames broadcast while a registered queue was full
    acks,           \* per session: ack messages written to its socket
    ack_early,      \* per session: an ack was written before a frame of the
                    \* session was counted in bytes_total
    got             \* per session: "none", "empty" (only empty binary
                    \* messages so far) or "frame" (a non-empty one was
                    \* broadcast and counted)

vars == <<listeners, streamer, active, started_at, bytes_total, queue, lpc,
          tclosed, lexit, upc, closed, ack_sent, uexit, nframes, mark, consumed,
          contended, acks, ack_early, got, now, reporter, report, stats_reply,
          pings, pongs, pong_phases, cleanup>>

hubVars == <<listeners, streamer, active, started_at, bytes_total>>
listenVars == <<queue, lpc, tclosed, lexit, mark, consumed>>
uplinkVars == <<upc, closed, ack_sent, uexit, acks, ack_early, got>>
frameVars == <<nframes, contended>>
ctlVars == <<now, reporter, report, stats_reply, pings, pongs, pong_phases, cleanup>>

\* No iteration of the reporter yet; no call of hub.stats() yet.
NoReport ==
    [at |-> 0, outcome |-> "none", prev |-> "none", to |-> None, listeners |-> 0,
     bytes_total |-> 0, active |-> FALSE, uptime_sec |-> 0]

NoReply ==
    [at |-> 0, active |-> FALSE, listeners |-> 0, bytes_total |-> 0,
     started_at |-> NoTime, uptime_sec |-> 0]

\* ------------------------------------------------------------- StreamHub

\* StreamHub.__init__ and the module-level state before any connection.
Init ==
    /\ listeners = {}
    /\ streamer = None
    /\ active = FALSE
    /\ started_at = NoTime
    /\ bytes_total = 0
    /\ queue = [c \in Consumers |-> <<>>]
    /\ lpc = [c \in Consumers |-> "idle"]
    /\ tclosed = [c \in Consumers |-> FALSE]
    /\ lexit = [c \in Consumers |-> "none"]
    /\ upc = [s \in Sessions |-> "idle"]
    /\ closed = [s \in Sessions |-> FALSE]
    /\ ack_sent = [s \in Sessions |-> FALSE]
    /\ uexit = [s \in Sessions |-> "none"]
    /\ nframes = 0
    /\ mark = [c \in Consumers |-> 0]
    /\ consumed = [c \in Consumers |-> FALSE]
    /\ contended = {}
    /\ acks = [s \in Sessions |-> 0]
    /\ ack_early = [s \in Sessions |-> FALSE]
    /\ got = [s \in Sessions |-> "none"]
    /\ now = StartTime
    /\ reporter = "sleeping"
    /\ cleanup = FALSE
    /\ report = NoReport
    /\ stats_reply = NoReply
    /\ pings = [s \in Sessions |-> 0]
    /\ pongs = [s \in Sessions |-> 0]
    /\ pong_phases = [s \in Sessions |-> {}]

\* QueueFull for asyncio.Queue(): no maxsize, never full.
QueueFull_Unbounded(q) ==
    Len(q) < 0

\* asyncio.Queue.full() for a queue built with maxsize=16.
QueueFull(q) ==
    Len(q) >= QueueMaxSize

\* PutDropping as a drop-oldest queue would do it: evict one frame, keep
\* the rest.
PutDropping_EvictOne(q, data) ==
    IF ~QueueFull(q) THEN Append(q, data) ELSE Append(Tail(q), data)

\* PutDropping discarding the older half of a full queue.
PutDropping_KeepHalf(q, data) ==
    IF ~QueueFull(q)
    THEN Append(q, data)
    ELSE Append(SubSeq(q, Len(q) \div 2 + 1, Len(q)), data)

\* PutDropping as a drop-newest queue would do it: a full queue keeps its
\* frames and the new one is discarded.
PutDropping_DropNewest(q, data) ==
    IF ~QueueFull(q) THEN Append(q, data) ELSE q

\* One iteration of broadcast's loop over list(self.listeners): put_nowait,
\* and on QueueFull empty the queue and put_nowait again.
PutDropping(q, data) ==
    IF ~QueueFull(q) THEN Append(q, data) ELSE <<data>>

\* DeadQueues with every overflowing queue taken for dead.
DeadQueues_AnyFull(ls, qs) ==
    {c \in ls : QueueFull(qs[c])}

\* The queues broadcast appends to 'dead': those whose second put_nowait
\* raises, which takes a queue that is full when empty.
DeadQueues(ls, qs) ==
    {c \in ls : QueueFull(qs[c]) /\ QueueFull(<<>>)}

\* BroadcastQueues putting the frame into every queue there is, registered
\* or not.
BroadcastQueues_Everyone(ls, qs, data) ==
    [c \in Consumers |-> PutDropping(qs[c], data)]

\* BroadcastQueues with the loop left after its first queue.
BroadcastQueues_FirstOnly(ls, qs, data) ==
    [c \in Consumers |->
        IF c \in ls /\ c = (CHOOSE d \in ls : TRUE)
        THEN PutDropping(qs[c], data) ELSE qs[c]]

\* StreamHub.broadcast: the queues after the fan-out.
BroadcastQueues(ls, qs, data) ==
    [c \in Consumers |-> IF c \in ls THEN PutDropping(qs[c], data) ELSE qs[c]]

\* BroadcastListeners evicting the listeners whose queue overflowed.
BroadcastListeners_EvictSlow(ls, qs) ==
    ls \ {c \in ls : QueueFull(qs[c])}

\* StreamHub.broadcast: the registry after discarding the dead queues.
BroadcastListeners(ls, qs) ==
    ls \ DeadQueues(ls, qs)

\* BroadcastBytes counting only what was handed to some listener.
BroadcastBytes_Delivered(total, data) ==
    IF listeners = {} THEN total ELSE total + FrameLen(data)

\* StreamHub.broadcast: self._bytes_total += len(data).
BroadcastBytes(total, data) ==
    total + FrameLen(data)

\* StreamHub.listeners_count
listeners_count ==
    Cardinality(listeners)

\* StreamHub.add_listener: the registry with the new queue.
AddListener(ls, c) ==
    ls \cup {c}

\* StreamHub.remove_listener: set.discard.
RemoveListener(ls, c) ==
    ls \ {c}

\* ------------------------------------------------------------ listen_mp3

\* ListenStart with a replay buffer: the new queue starts with the latest
\* frame of the stream.
ListenStart_Replay(c) ==
    /\ lpc[c] = "idle"
    /\ listeners' = AddListener(listeners, c)
    /\ queue' = [queue EXCEPT ![c] = IF nframes > 0 THEN <<nframes>> ELSE <<>>]
    /\ lpc' = [lpc EXCEPT ![c] = "loop"]
    /\ mark' = [mark EXCEPT ![c] = nframes]
    /\ UNCHANGED <<streamer, active, started_at, bytes_total, tclosed, lexit,
                   consumed, uplinkVars, frameVars, ctlVars>>

\* ListenStart refusing a consumer while no stream is active.
ListenStart_NeedsActive(c) ==
    /\ lpc[c] = "idle"
    /\ listeners' = IF active THEN AddListener(listeners, c) ELSE listeners
    /\ queue' = [queue EXCEPT ![c] = <<>>]
    /\ lpc' = [lpc EXCEPT ![c] = IF active THEN "loop" ELSE "done"]
    /\ lexit' = [lexit EXCEPT ![c] = IF active THEN @ ELSE "exception"]
    /\ mark' = [mark EXCEPT ![c] = IF active THEN nframes ELSE 0]
    /\ UNCHANGED <<streamer, active, started_at, bytes_total, tclosed,
                   consumed, uplinkVars, frameVars, ctlVars>>

\* resp.prepare, then q = await hub.add_listener(): a fresh empty queue is
\* registered and the handler enters its loop.
ListenStart(c) ==
    /\ lpc[c] = "idle"
    /\ listeners' = AddListener(listeners, c)
    /\ queue' = [queue EXCEPT ![c] = <<>>]
    /\ lpc' = [lpc EXCEPT ![c] = "loop"]
    /\ mark' = [mark EXCEPT ![c] = nframes]
    /\ UNCHANGED <<streamer, active, started_at, bytes_total, tclosed, lexit,
                   consumed, uplinkVars, frameVars,
                   ctlVars>>

\* ListenLeave emptying the registry instead of discarding its own queue.
ListenLeave_ClearsAll(c, how) ==
    /\ listeners' = {}
    /\ queue' = [queue EXCEPT ![c] = <<>>]
    /\ lpc' = [lpc EXCEPT ![c] = "done"]
    /\ lexit' = [lexit EXCEPT ![c] = how]
    /\ tclosed' = [tclosed EXCEPT ![c] = TRUE]
    /\ mark' = [mark EXCEPT ![c] = 0]
    /\ consumed' = [consumed EXCEPT ![c] = FALSE]
    /\ UNCHANGED <<streamer, active, started_at, bytes_total, uplinkVars, frameVars,
                   ctlVars>>

\* The finally block of listen_mp3: remove_listener(q), write_eof.  The queue
\* and the response die with the handler.
ListenLeave(c, how) ==
    /\ listeners' = RemoveListener(listeners, c)
    /\ queue' = [queue EXCEPT ![c] = <<>>]
    /\ lpc' = [lpc EXCEPT ![c] = "done"]
    /\ lexit' = [lexit EXCEPT ![c] = how]
    /\ tclosed' = [tclosed EXCEPT ![c] = TRUE]
    /\ mark' = [mark EXCEPT ![c] = 0]
    /\ consumed' = [consumed EXCEPT ![c] = FALSE]
    /\ UNCHANGED <<streamer, active, started_at, bytes_total, uplinkVars, frameVars,
                   ctlVars>>

\* ListenDeliver with the newest frame taken instead of the oldest.
ListenDeliver_Newest(c) ==
    /\ lpc[c] = "loop"
    /\ queue[c] # <<>>
    /\ ~tclosed[c]
    /\ queue' = [queue EXCEPT ![c] = SubSeq(queue[c], 1, Len(queue[c]) - 1)]
    /\ mark' = [mark EXCEPT ![c] = queue[c][Len(queue[c])]]
    /\ consumed' = [consumed EXCEPT ![c] = TRUE]
    /\ UNCHANGED <<hubVars, lpc, tclosed, lexit, uplinkVars, frameVars,
                   ctlVars>>

\* chunk = await q.get(); await resp.write(chunk) on a healthy transport.
ListenDeliver(c) ==
    /\ lpc[c] = "loop"
    /\ queue[c] # <<>>
    /\ ~tclosed[c]
    /\ queue' = [queue EXCEPT ![c] = Tail(queue[c])]
    /\ mark' = [mark EXCEPT ![c] = Head(queue[c])]
    /\ consumed' = [consumed EXCEPT ![c] = TRUE]
    /\ UNCHANGED <<hubVars, lpc, tclosed, lexit, uplinkVars, frameVars,
                   ctlVars>>

\* The consumer goes away: its transport starts closing.
ListenDisconnect(c) ==
    /\ lpc[c] = "loop"
    /\ ~tclosed[c]
    /\ tclosed' = [tclosed EXCEPT ![c] = TRUE]
    /\ UNCHANGED <<hubVars, queue, lpc, lexit, mark, consumed, uplinkVars, frameVars,
                   ctlVars>>

\* resp.write on a closing transport raises ConnectionResetError, which the
\* handler catches; the finally block runs.
ListenWriteFails(c) ==
    /\ lpc[c] = "loop"
    /\ queue[c] # <<>>
    /\ tclosed[c]
    /\ ListenLeave(c, "write_failure")

\* ListenCancelled with the cancellation escaping the handler before the
\* queue is removed.
ListenCancelled_NoRelease(c) ==
    /\ lpc[c] = "loop"
    /\ lpc' = [lpc EXCEPT ![c] = "done"]
    /\ lexit' = [lexit EXCEPT ![c] = "cancelled"]
    /\ UNCHANGED <<hubVars, queue, tclosed, mark, consumed, uplinkVars, frameVars,
                   ctlVars>>

\* The handler task is cancelled at q.get() or resp.write(): CancelledError
\* is caught; the finally block runs.
ListenCancelled(c) ==
    /\ lpc[c] = "loop"
    /\ ListenLeave(c, "cancelled")

\* resp.write raises an exception the handler does not catch; the finally
\* block still runs.
ListenRaises(c) ==
    /\ lpc[c] = "loop"
    /\ queue[c] # <<>>
    /\ ListenLeave(c, "exception")

\* ---------------------------------------------------------------- uplink

\* The admission test at the top of uplink.
StreamerConnected ==
    streamer # None /\ ~closed[streamer]

\* UplinkConnect with the reset of active and started_at done before the
\* admission test.
UplinkConnect_ResetFirst(s) ==
    /\ upc[s] = "idle"
    /\ upc' = [upc EXCEPT ![s] = IF StreamerConnected THEN "rejected" ELSE "prepare"]
    /\ active' = FALSE
    /\ started_at' = NoTime
    /\ UNCHANGED <<listeners, streamer, bytes_total, listenVars, closed, ack_sent,
                   uexit, acks, ack_early, got, frameVars,
                   ctlVars>>

\* uplink is entered: 423 if a streamer is connected, else the WebSocket
\* handshake starts (await ws.prepare).
UplinkConnect(s) ==
    /\ upc[s] = "idle"
    /\ upc' = [upc EXCEPT ![s] = IF StreamerConnected THEN "rejected" ELSE "prepare"]
    /\ UNCHANGED <<hubVars, listenVars, closed, ack_sent, uexit, acks, ack_early, got,
                   frameVars,
                   ctlVars>>

\* ws.prepare returned: the session registers itself.
UplinkRegister(s) ==
    /\ upc[s] = "prepare"
    /\ streamer' = s
    /\ active' = FALSE
    /\ started_at' = NoTime
    /\ ack_sent' = [ack_sent EXCEPT ![s] = FALSE]
    /\ upc' = [upc EXCEPT ![s] = "recv"]
    /\ UNCHANGED <<listeners, bytes_total, listenVars, closed, uexit, acks, ack_early,
                   got, frameVars,
                   ctlVars>>

\* ws.prepare raised (the handshake failed): the handler ends before its try.
UplinkPrepareFails(s) ==
    /\ upc[s] = "prepare"
    /\ upc' = [upc EXCEPT ![s] = "failed"]
    /\ UNCHANGED <<hubVars, listenVars, closed, ack_sent, uexit, acks, ack_early, got,
                   frameVars,
                   ctlVars>>

\* UplinkEmpty taking an empty message for the first frame: the stream is
\* active and the ack is sent.
UplinkEmpty_Acks(s) ==
    /\ upc[s] = "recv"
    /\ got[s] = "none"
    /\ got' = [got EXCEPT ![s] = "empty"]
    /\ active' = TRUE
    /\ started_at' = now
    /\ acks' = [acks EXCEPT ![s] = IF ack_sent[s] THEN @ ELSE @ + 1]
    /\ ack_sent' = [ack_sent EXCEPT ![s] = TRUE]
    /\ UNCHANGED <<listeners, streamer, bytes_total, listenVars, upc, closed, uexit,
                   ack_early, frameVars, ctlVars>>

\* A BINARY message with empty data: continue.  (Only the first one of a
\* session that has had no frame changes anything the model records.)
UplinkEmpty(s) ==
    /\ upc[s] = "recv"
    /\ got[s] = "none"
    /\ got' = [got EXCEPT ![s] = "empty"]
    /\ UNCHANGED <<hubVars, listenVars, upc, closed, ack_sent, uexit, acks, ack_early,
                   frameVars,
                   ctlVars>>

\* UplinkFrame without 'ack_sent = True': every frame is acknowledged.
UplinkFrame_AckEvery(s, sendOk, limit) ==
    LET data == nframes + 1
    IN  /\ upc[s] = "recv"
        /\ nframes < limit
        /\ sendOk
        /\ nframes' = data
        /\ contended' = IF \E c \in listeners : QueueFull(queue[c])
                        THEN contended \cup {data} ELSE contended
        /\ queue' = BroadcastQueues(listeners, queue, data)
        /\ listeners' = BroadcastListeners(listeners, queue)
        /\ bytes_total' = BroadcastBytes(bytes_total, data)
        /\ got' = [got EXCEPT ![s] = "frame"]
        /\ active' = TRUE
        /\ started_at' = now
        /\ acks' = [acks EXCEPT ![s] = @ + 1]
        /\ UNCHANGED <<streamer, lpc, tclosed, lexit, mark, consumed, ack_early,
                       ack_sent, upc, closed, uexit,
                   ctlVars>>

\* A BINARY message with data: await hub.broadcast(data), then on the first
\* one of the session active, started_at and the ack.  The handler does not
\* suspend between the receive and the send.
\* sendOk: ws.send_json wrote the ack, or raised (the socket is closing).
\* limit bounds the frames of a run.
UplinkFrame(s, sendOk, limit) ==
    LET data == nframes + 1
        first == ~ack_sent[s]
        counted == [got EXCEPT ![s] = "frame"]
    IN  /\ upc[s] = "recv"
        /\ nframes < limit
        /\ nframes' = data
        /\ contended' = IF \E c \in listeners : QueueFull(queue[c])
                        THEN contended \cup {data} ELSE contended
        /\ queue' = BroadcastQueues(listeners, queue, data)
        /\ listeners' = BroadcastListeners(listeners, queue)
        /\ bytes_total' = BroadcastBytes(bytes_total, data)
        /\ got' = counted
        /\ active' = IF first THEN TRUE ELSE active
        /\ started_at' = IF first THEN now ELSE started_at
        /\ IF first /\ sendOk
           THEN /\ acks' = [acks EXCEPT ![s] = @ + 1]
                /\ ack_early' = [ack_early EXCEPT ![s] = @ \/ counted[s] # "frame"]
                /\ ack_sent' = [ack_sent EXCEPT ![s] = TRUE]
                /\ UNCHANGED <<upc, closed, uexit>>
           ELSE IF first
           THEN /\ upc' = [upc EXCEPT ![s] = "closing"]
                /\ closed' = [closed EXCEPT ![s] = TRUE]
                /\ uexit' = [uexit EXCEPT ![s] = "exception"]
                /\ UNCHANGED <<acks, ack_early, ack_sent>>
           ELSE UNCHANGED <<acks, ack_early, ack_sent, upc, closed, uexit>>
        /\ UNCHANGED <<streamer, lpc, tclosed, lexit, mark, consumed,
                   ctlVars>>

\* The receive loop ends: a CLOSE from the peer ("close"), an ERROR message
\* ("error") or an exception out of the receive ("exception").  The socket
\* is closed (ws.close sets ws.closed before it suspends).
UplinkLeave(s, how) ==
    /\ upc[s] = "recv"
    /\ upc' = [upc EXCEPT ![s] = "closing"]
    /\ closed' = [closed EXCEPT ![s] = TRUE]
    /\ uexit' = [uexit EXCEPT ![s] = how]
    /\ UNCHANGED <<hubVars, listenVars, ack_sent, acks, ack_early, got, frameVars,
                   ctlVars>>

\* UplinkTeardown without 'if hub.streamer is ws': the slot is always
\* cleared.
UplinkTeardown_ClearsAlways(s) ==
    /\ upc[s] = "closing"
    /\ streamer' = None
    /\ active' = FALSE
    /\ upc' = [upc EXCEPT ![s] = "done"]
    /\ UNCHANGED <<listeners, started_at, bytes_total, listenVars, closed,
                   ack_sent, uexit, acks, ack_early, got, frameVars,
                   ctlVars>>

\* UplinkTeardown without 'hub.streamer = None'.
UplinkTeardown_KeepsStreamer(s) ==
    /\ upc[s] = "closing"
    /\ active' = FALSE
    /\ upc' = [upc EXCEPT ![s] = "done"]
    /\ UNCHANGED <<listeners, streamer, started_at, bytes_total, listenVars, closed,
                   ack_sent, uexit, acks, ack_early, got, frameVars,
                   ctlVars>>

\* The rest of the finally block, after ws.close().
UplinkTeardown(s) ==
    /\ upc[s] = "closing"
    /\ streamer' = IF streamer = s THEN None ELSE streamer
    /\ active' = FALSE
    /\ upc' = [upc EXCEPT ![s] = "done"]
    /\ UNCHANGED <<listeners, started_at, bytes_total, listenVars, closed,
                   ack_sent, uexit, acks, ack_early, got, frameVars,
                   ctlVars>>

\* ----------------------------------------------------- ping, stats, clock

\* UplinkPing writing two "pong" for a "ping".
UplinkPing_PongTwice(s, sendOk, maxPings) ==
    /\ upc[s] = "recv"
    /\ pings[s] < maxPings
    /\ pings' = [pings EXCEPT ![s] = @ + 1]
    /\ pongs' = [pongs EXCEPT ![s] = @ + 2]
    /\ pong_phases' = [pong_phases EXCEPT
                         ![s] = @ \cup {IF ack_sent[s] THEN "after" ELSE "before"}]
    /\ UNCHANGED <<hubVars, listenVars, uplinkVars, frameVars, now, reporter,
                   report, stats_reply, cleanup>>

\* A TEXT message "ping": await ws.send_str("pong").  The write raises on a
\* closing transport (sendOk false): except Exception, then the finally block.
UplinkPing(s, sendOk, maxPings) ==
    /\ upc[s] = "recv"
    /\ pings[s] < maxPings
    /\ pings' = [pings EXCEPT ![s] = @ + 1]
    /\ IF sendOk
       THEN /\ pongs' = [pongs EXCEPT ![s] = @ + 1]
            /\ pong_phases' = [pong_phases EXCEPT
                                 ![s] = @ \cup {IF ack_sent[s] THEN "after" ELSE "before"}]
            /\ UNCHANGED <<upc, closed, uexit>>
       ELSE /\ upc' = [upc EXCEPT ![s] = "closing"]
            /\ closed' = [closed EXCEPT ![s] = TRUE]
            /\ uexit' = [uexit EXCEPT ![s] = "exception"]
            /\ UNCHANGED <<pongs, pong_phases>>
    /\ UNCHANGED <<hubVars, listenVars, ack_sent, acks, ack_early, got, frameVars,
                   now, reporter, report, stats_reply, cleanup>>

\* The truth value Python gives hub.started_at: None and 0 are false.
Truthy(t) ==
    t # NoTime /\ t # 0

\* The uptime expression of stats() and of the reporter, at time t.
Uptime_WheneverStarted(t) ==
    IF Truthy(started_at) THEN t - started_at ELSE 0

Uptime(t) ==
    IF active /\ Truthy(started_at) THEN t - started_at ELSE 0

\* hub.stats() at time t.
Stats(t) ==
    [at |-> t, active |-> active, listeners |-> listeners_count,
     bytes_total |-> bytes_total, started_at |-> started_at,
     uptime_sec |-> Uptime(t)]

\* The /stats handler: json_response(hub.stats()).
StatsRequest ==
    /\ stats_reply' = Stats(now)
    /\ UNCHANGED <<hubVars, listenVars, uplinkVars, frameVars, now, reporter,
                   report, pings, pongs, pong_phases, cleanup>>

\* Time passes; after its sleep the reporter is ready to run.
ClockTick ==
    /\ now < MaxTime
    /\ now' = now + 1
    /\ reporter' = IF reporter = "sleeping" THEN "ready" ELSE reporter
    /\ UNCHANGED <<hubVars, listenVars, uplinkVars, frameVars, report,
                   stats_reply, pings, pongs, pong_phases, cleanup>>

\* The message of one iteration of the reporter.
StatsMessage(outcome) ==
    [at |-> now, outcome |-> outcome, prev |-> report.outcome, to |-> streamer,
     listeners |-> listeners_count, bytes_total |-> bytes_total,
     active |-> active, uptime_sec |-> Uptime(now)]

\* An iteration of the reporter that sends nothing.
NoMessage ==
    [NoReport EXCEPT !.at = now, !.outcome = "idle", !.prev = report.outcome]

\* ReporterWake reporting only while a stream is active.
ReporterWake_OnlyActive(sendOk) ==
    /\ reporter = "ready"
    /\ reporter' = "sleeping"
    /\ report' = IF StreamerConnected /\ active
                 THEN StatsMessage(IF sendOk THEN "sent" ELSE "failed")
                 ELSE NoMessage
    /\ UNCHANGED <<hubVars, listenVars, uplinkVars, frameVars, now, stats_reply,
                   pings, pongs, pong_phases, cleanup>>

\* ReporterWake without its try: a failed send ends the task.
ReporterWake_FailureStops(sendOk) ==
    /\ reporter = "ready"
    /\ reporter' = IF StreamerConnected /\ ~sendOk THEN "stopped" ELSE "sleeping"
    /\ report' = IF StreamerConnected
                 THEN StatsMessage(IF sendOk THEN "sent" ELSE "failed")
                 ELSE NoMessage
    /\ UNCHANGED <<hubVars, listenVars, uplinkVars, frameVars, now, stats_reply,
                   pings, pongs, pong_phases, cleanup>>

\* One iteration of streamer_stats_push after its sleep.  send_json raises
\* on a closing transport (sendOk false): except Exception: pass.
ReporterWake(sendOk) ==
    /\ reporter = "ready"
    /\ reporter' = "sleeping"
    /\ report' = IF StreamerConnected
                 THEN StatsMessage(IF sendOk THEN "sent" ELSE "failed")
                 ELSE NoMessage
    /\ UNCHANGED <<hubVars, listenVars, uplinkVars, frameVars, now, stats_reply,
                   pings, pongs, pong_phases, cleanup>>

\* An iteration of the reporter whose send_json writes the message and
\* then suspends (the transport's buffer is over its limit).
ReporterSendSuspends ==
    /\ reporter = "ready"
    /\ StreamerConnected
    /\ reporter' = "sending"
    /\ report' = StatsMessage("sent")
    /\ UNCHANGED <<hubVars, listenVars, uplinkVars, frameVars, now, stats_reply,
                   pings, pongs, pong_phases, cleanup>>

\* The suspended send_json returns: back to the sleep.
ReporterSendResumes ==
    /\ reporter = "sending"
    /\ reporter' = "sleeping"
    /\ UNCHANGED <<hubVars, listenVars, uplinkVars, frameVars, now, report,
                   stats_reply, pings, pongs, pong_phases, cleanup>>

\* ReporterCancel where 'except Exception' takes the CancelledError raised
\* in send_json: the loop goes on.
ReporterCancel_Absorbed ==
    /\ ~cleanup
    /\ reporter # "stopped"
    /\ cleanup' = TRUE
    /\ reporter' = IF reporter = "sending" THEN "sleeping" ELSE "stopped"
    /\ UNCHANGED <<hubVars, listenVars, uplinkVars, frameVars, now, report,
                   stats_reply, pings, pongs, pong_phases>>

\* on_cleanup: task.cancel(), await task.  CancelledError is raised in the
\* task at its await, asyncio.sleep or send_json; it is a BaseException,
\* which 'except Exception' does not take: the task ends.
ReporterCancel ==
    /\ ~cleanup
    /\ reporter # "stopped"
    /\ cleanup' = TRUE
    /\ reporter' = "stopped"
    /\ UNCHANGED <<hubVars, listenVars, uplinkVars, frameVars, now, report,
                   stats_reply, pings, pongs, pong_phases>>

\* ------------------------------------------------------------- the system

\* The tasks of the event loop, with the producer connections ss, the
\* consumer connections cs and at most limit frames.
Handlers(ss, cs, limit) ==
    \/ \E c \in cs : ListenStart(c)
    \/ \E c \in cs : ListenDeliver(c)
    \/ \E c \in cs : ListenDisconnect(c)
    \/ \E c \in cs : ListenWriteFails(c)
    \/ \E c \in cs : ListenCancelled(c)
    \/ \E c \in cs : ListenRaises(c)
    \/ \E s \in ss : UplinkConnect(s)
    \/ \E s \in ss : UplinkRegister(s)
    \/ \E s \in ss : UplinkPrepareFails(s)
    \/ \E s \in ss : UplinkEmpty(s)
    \/ \E s \in ss, sendOk \in BOOLEAN : UplinkFrame(s, sendOk, limit)
    \/ \E s \in ss, how \in {"close", "error", "exception"} : UplinkLeave(s, how)
    \/ \E s \in ss : UplinkTeardown(s)

System(ss, limit) ==
    Handlers(ss, Consumers, limit)

\* The uplink handlers alone: the producer connections ss, no consumer.
Producers(ss, limit) ==
    \/ \E s \in ss : UplinkConnect(s)
    \/ \E s \in ss : UplinkRegister(s)
    \/ \E s \in ss : UplinkPrepareFails(s)
    \/ \E s \in ss : UplinkEmpty(s)
    \/ \E s \in ss, sendOk \in BOOLEAN : UplinkFrame(s, sendOk, limit)
    \/ \E s \in ss, how \in {"close", "error", "exception"} : UplinkLeave(s, how)
    \/ \E s \in ss : UplinkTeardown(s)

\* Competing producer connections, short streams.
Next ==
    System(Sessions, ShortRun)

Spec == Init /\ [][Next]_vars

\* One producer connection, a long stream.
NextStream ==
    System({"s1"}, MaxFrames)

SpecStream == Init /\ [][NextStream]_vars

\* What the event loop guarantees: a handler whose await is ready runs.  A
\* consumer handler with a frame in its queue takes it and writes it or
\* fails to; a producer handler in its finally block finishes it (ws.close
\* is bounded by its timeout).  Nothing obliges the peers to connect, send,
\* or disconnect, nor the server to cancel a handler.
Fairness ==
    /\ \A c \in Consumers : WF_vars(ListenDeliver(c)) /\ WF_vars(ListenWriteFails(c))
    /\ \A s \in Sessions : WF_vars(UplinkTeardown(s))

FairSpec == Spec /\ Fairness

\* One producer connection, the reporter and the clock.
NextReport ==
    \/ Handlers({"s1"}, Consumers, ReportRun)
    \/ ClockTick
    \/ \E sendOk \in BOOLEAN : ReporterWake(sendOk)

SpecReport == Init /\ [][NextReport]_vars

\* Competing producer connections, the clock and /stats.
NextStats ==
    \/ Handlers(Sessions, {"c1"}, StatsRun)
    \/ ClockTick
    \/ StatsRequest

SpecStats == Init /\ [][NextStats]_vars

\* Competing producer connections, the reporter and the clock; nobody
\* listens.
NextUplinkReport ==
    \/ Producers(Sessions, ReportRun)
    \/ ClockTick
    \/ \E sendOk \in BOOLEAN : ReporterWake(sendOk)

SpecUplinkReport == Init /\ [][NextUplinkReport]_vars

\* A producer connection, a consumer, the reporter with its suspending
\* sends, the clock, and the cleanup of the application.
NextShutdown ==
    \/ Handlers({"s1"}, {"c1"}, ReportRun)
    \/ ClockTick
    \/ \E sendOk \in BOOLEAN : ReporterWake(sendOk)
    \/ ReporterSendSuspends
    \/ ReporterSendResumes
    \/ ReporterCancel

SpecShutdown == Init /\ [][NextShutdown]_vars

\* One producer connection that also sends "ping".
NextPing ==
    \/ System({"s1"}, ShortRun)
    \/ \E sendOk \in BOOLEAN : UplinkPing("s1", sendOk, MaxPings)

SpecPing == Init /\ [][NextPing]_vars

\* ================================================================ claims

\* The frames a..b in broadcast order.
TagRange(a, b) ==
    [i \in 1..(IF b >= a THEN b - a + 1 ELSE 0) |-> a + i - 1]

Max(a, b) ==
    IF a >= b THEN a ELSE b

\* The sessions that are registered and in their receive loop.
Streaming ==
    {s \in Sessions : upc[s] = "recv"}

\* C1 (as claimed): at no time are two uplink sessions in the accepted /
\* streaming state; the second of two overlapping attempts is rejected.
C1_SingleProducer ==
    Cardinality(Streaming) <= 1

\* C2: an attempt that arrives while hub.streamer is a registered socket
\* that is not closed gets the 423 answer in that very step, which changes
\* nothing else (hub, queues, the other sessions); a rejected attempt stays
\* rejected, reads no message and gets no ack.
C2_RejectionSideEffectFree ==
    [][\A s \in Sessions :
        /\ (upc[s] = "idle" /\ upc'[s] # "idle" /\ streamer # None /\ ~closed[streamer])
           => /\ upc'[s] = "rejected"
              /\ \A t \in Sessions \ {s} : upc'[t] = upc[t]
              /\ UNCHANGED <<hubVars, listenVars, closed, ack_sent, uexit, acks,
                             ack_early, got, frameVars>>
        /\ upc[s] = "rejected"
           => upc'[s] = "rejected" /\ got'[s] = "none" /\ acks'[s] = 0]_vars

\* C2 witness: the second attempt was rejected and the first session is
\* acknowledged and still streaming, all frames of the run broadcast.
C2_Witness ==
    /\ upc["s2"] = "rejected"
    /\ upc["s1"] = "recv"
    /\ acks["s1"] = 1
    /\ nframes = ShortRun

\* C3 (as claimed): a registered queue nothing was taken from holds exactly
\* the QueueMaxSize most recently broadcast frames, in order (all of them if
\* fewer were broadcast since it registered).
C3_MostRecentC ==
    \A c \in listeners :
        ~consumed[c]
        => queue[c] = TagRange(Max(mark[c], nframes - QueueMaxSize) + 1, nframes)

\* C3 (amended): a registered queue holds at most QueueMaxSize frames, and
\* they are the most recently broadcast ones, in broadcast order; if nothing
\* was taken from it and n >= 1 frames were broadcast since it registered,
\* it holds the last ((n - 1) mod QueueMaxSize) + 1 of them: all n up to
\* QueueMaxSize, and only those since the last push that found it full.
C3_QueueSinceOverflow ==
    \A c \in listeners :
        LET n == nframes - mark[c]
        IN  /\ Len(queue[c]) <= QueueMaxSize
            /\ queue[c] = TagRange(nframes - Len(queue[c]) + 1, nframes)
            /\ ~consumed[c]
               => Len(queue[c]) = IF n = 0 THEN 0 ELSE ((n - 1) % QueueMaxSize) + 1

\* C3 witness: more than QueueMaxSize frames were pushed to a queue nothing
\* was taken from, and it holds the two pushed since the overflow.
C3_Witness ==
    \E c \in listeners :
        /\ ~consumed[c]
        /\ nframes - mark[c] = QueueMaxSize + 2
        /\ queue[c] = <<nframes - 1, nframes>>

\* C4 (as claimed): a session that sent at least one binary message and is
\* over got exactly one ack (stated here for the sessions that ended
\* without an exception in their handler).
C4_ExactlyOneAck ==
    \A s \in Sessions :
        (upc[s] = "done" /\ got[s] # "none" /\ uexit[s] # "exception") => acks[s] = 1

\* C4 (amended): a session never gets a second ack; it gets its ack when its
\* first non-empty binary frame is processed, after that frame was counted
\* in bytes_total, unless the send of the ack raises (which ends the
\* session); a session whose binary messages are all empty gets none.
C4_AckOnceAfterFirstFrame ==
    \A s \in Sessions :
        /\ acks[s] <= 1
        /\ acks[s] = 1 => (got[s] = "frame" /\ ~ack_early[s] /\ bytes_total > 0)
        /\ (got[s] = "frame" /\ acks[s] = 0) => uexit[s] = "exception"
        /\ got[s] # "frame" => acks[s] = 0

\* C4 witness: one session sent all the frames of the run and was
\* acknowledged once.
C4_Witness ==
    /\ upc["s2"] = "idle"
    /\ got["s1"] = "frame"
    /\ nframes = ShortRun
    /\ acks["s1"] = 1

\* C5: the listener count is the number of listen_mp3 runs that have
\* added their queue and not removed it, and hub.listeners holds exactly
\* their queues.
C5_ListenerAccounting ==
    /\ listeners = {c \in Consumers : lpc[c] = "loop"}
    /\ listeners_count = Cardinality({c \in Consumers : lpc[c] = "loop"})
    /\ listeners_count >= 0

\* C5 witness: one consumer has left, the other is registered, and a
\* broadcast has overflowed a queue.
C5_Witness ==
    /\ listeners_count = 1
    /\ \E c \in Consumers : lpc[c] = "done"
    /\ contended # {}

\* The frames in a queue.
Queued(c) ==
    {queue[c][i] : i \in 1..Len(queue[c])}

\* C6 (as claimed): a frame broadcast while no registered queue was at
\* capacity stays available to every consumer registered then until that
\* consumer has taken it: no such frame newer than what the consumer was
\* last written is missing from its queue.
C6_NoFrameLost ==
    \A c \in listeners :
        \A f \in (mark[c] + 1)..nframes :
            f \notin contended => f \in Queued(c)

\* C6 (amended): a frame broadcast while no registered queue is at
\* capacity is appended to every registered queue and nothing is discarded;
\* a consumer is only ever written the frame at the front of its queue, so
\* it is written that frame before any later one; and a queued frame leaves
\* the queue of a registered consumer only from the front, written to that
\* consumer, or when a broadcast finds the queue full.
C6_FanOutStep ==
    \A c \in listeners \cap listeners' :
        /\ (nframes' = nframes + 1 /\ \A d \in listeners : ~QueueFull(queue[d]))
           => queue'[c] = Append(queue[c], nframes')
        /\ mark'[c] # mark[c]
           => queue[c] # <<>> /\ mark'[c] = Head(queue[c])
        /\ \A f \in Queued(c) :
              f \notin {queue'[c][i] : i \in 1..Len(queue'[c])}
              => \/ f = Head(queue[c]) /\ mark'[c] = f /\ queue'[c] = Tail(queue[c])
                 \/ QueueFull(queue[c]) /\ nframes' = nframes + 1

\* C6 (amended): every step of the system is such a step: a frame broadcast
\* with no queue at capacity reaches every registered queue and leaves it
\* only by the consumer's get, in order, by the session's end or by overflow.
C6_FanOutUnlessOverflow ==
    [][C6_FanOutStep]_vars

\* C6 witness: both consumers registered before the first frame, no
\* broadcast met a full queue, and both were written frame 3.
C6_Witness ==
    /\ listeners = Consumers
    /\ contended = {}
    /\ nframes >= 3
    /\ \A c \in Consumers : consumed[c] /\ mark[c] = 3 /\ Len(queue[c]) = nframes - 3

\* C7: the frames written to a consumer are frames broadcast after it
\* registered, in broadcast order, none twice: every frame written is newer
\* than the consumer's mark (its registration point, then the frame it was
\* last written), and what waits in its queue is newer still, in order.
C7_QueueOrdered ==
    \A c \in listeners :
        /\ mark[c] <= nframes
        /\ \A i \in 1..Len(queue[c]) :
              /\ mark[c] < queue[c][i] /\ queue[c][i] <= nframes
              /\ i > 1 => queue[c][i - 1] < queue[c][i]

\* C7, the write: a frame written to a consumer comes from its queue and is
\* newer than its mark.
C7_WriteStep ==
    \A c \in listeners \cap listeners' :
        (consumed'[c] /\ (mark'[c] # mark[c] \/ queue'[c] # queue[c] \/ ~consumed[c])
         /\ nframes' = nframes)
        => mark'[c] \in Queued(c) /\ mark'[c] > mark[c]

\* C7: per consumer the frames written are a subsequence, in broadcast
\* order and without repeats, of the frames broadcast after it registered.
C7_FifoWithGaps ==
    []C7_QueueOrdered /\ [][C7_WriteStep]_vars

\* C7 witness: a consumer that was written frames before an overflow is
\* written the frame that overflowed its queue.
C7_Witness ==
    \E c \in listeners :
        /\ consumed[c]
        /\ mark[c] \in contended
        /\ mark[c] = QueueMaxSize + 2

\* C8: a listen_mp3 run that has finished has no queue in hub.listeners,
\* however it left its loop.
C8_ReleasedOnExit ==
    \A c \in Consumers :
        lpc[c] = "done" => c \notin listeners

\* C8 witness: one run ended by cancellation, the other by an exception the
\* handler does not catch, and the registry is empty.
C8_Witness ==
    /\ lexit["c1"] = "cancelled" /\ lpc["c1"] = "done"
    /\ lexit["c2"] = "exception" /\ lpc["c2"] = "done"
    /\ listeners = {}
    /\ nframes > 0

\* C9 (as claimed): once a registered consumer's transport is closed, its
\* queue is eventually removed from hub.listeners.
C9_DisconnectReleases ==
    \A c \in Consumers :
        (tclosed[c] /\ c \in listeners) ~> (c \notin listeners)

\* C10: when the session hub.streamer refers to finishes its teardown,
\* hub.streamer becomes None and hub.active false, and bytes_total, the
\* registry and the queues stay as they were; an attempt that arrives while
\* hub.streamer is None is admitted to the handshake.
C10_TeardownStep ==
    /\ \A s \in Sessions :
          (upc[s] = "closing" /\ upc'[s] = "done" /\ streamer = s)
          => /\ streamer' = None
             /\ active' = FALSE
             /\ bytes_total' = bytes_total
             /\ listeners' = listeners
             /\ queue' = queue
    /\ \A t \in Sessions :
          (upc[t] = "idle" /\ upc'[t] # "idle" /\ streamer = None)
          => upc'[t] = "prepare"

\* C10: every teardown of the registered session releases the slot and
\* leaves bytes_total and the registry alone; the next attempt is admitted.
C10_TeardownReleasesSlot ==
    [][C10_TeardownStep]_vars

\* C10 witness: the first session streamed, ended on an ERROR message and
\* released the slot, with a listener still registered; the next attempt is
\* in its handshake.
C10_Witness ==
    /\ upc["s1"] = "done" /\ uexit["s1"] = "error" /\ acks["s1"] = 1
    /\ streamer = None /\ ~active
    /\ bytes_total > 0 /\ listeners # {}
    /\ upc["s2"] = "prepare"

\* The bytes of the frames 1..n.
RECURSIVE BytesOf(_)
BytesOf(n) ==
    IF n = 0 THEN 0 ELSE FrameLen(n) + BytesOf(n - 1)

\* C11, for every step: bytes_total does not decrease, and changes only
\* when a frame is broadcast.
C11_BytesStep ==
    /\ bytes_total' >= bytes_total
    /\ bytes_total' # bytes_total => nframes' = nframes + 1

\* C11: bytes_total is always the sum of the lengths of all the frames
\* broadcast so far, over all sessions and with or without listeners; no
\* step decreases it.
C11_BytesTotalCumulative ==
    [](bytes_total = BytesOf(nframes)) /\ [][C11_BytesStep]_vars

\* A second session streams after a first one has ended, nobody listens,
\* and the frames of both are counted.
C11_Witness ==
    /\ upc["s1"] = "done" /\ acks["s1"] = 1
    /\ upc["s2"] = "recv" /\ acks["s2"] = 1
    /\ listeners = {}
    /\ nframes = ShortRun
    /\ bytes_total = BytesOf(ShortRun)

\* C12, a consumer connects while no stream is active: it is registered
\* with an empty queue and is in its loop.
C12_JoinStep(c) ==
    lpc[c] = "idle" /\ lpc'[c] # "idle" /\ ~active
        => /\ lpc'[c] = "loop"
           /\ c \in listeners'
           /\ queue'[c] = <<>>
           /\ lexit'[c] = "none"

\* C12, a consumer waits on its empty queue: it is written nothing and
\* stays registered and waiting, until a frame is broadcast, which it gets,
\* or the server cancels its handler.
C12_WaitStep(c) ==
    lpc[c] = "loop" /\ queue[c] = <<>>
        => \/ /\ nframes' = nframes
              /\ lpc'[c] = "loop" /\ c \in listeners' /\ queue'[c] = <<>>
              /\ consumed'[c] = consumed[c] /\ mark'[c] = mark[c]
           \/ /\ nframes' = nframes + 1
              /\ lpc'[c] = "loop" /\ c \in listeners' /\ queue'[c] = <<nframes'>>
           \/ /\ lpc'[c] = "done" /\ lexit'[c] = "cancelled"

\* C12: a consumer that connects while no stream is active gets no error
\* and no bytes; it stays registered, waiting on its empty queue, and gets
\* the frames broadcast from then on.
C12_SpeculativeConsumer ==
    /\ [](\A c \in Consumers : lpc[c] = "loop" => c \in listeners)
    /\ [][\A c \in Consumers : C12_JoinStep(c) /\ C12_WaitStep(c)]_vars

\* A consumer has been written the very first frame of the stream: it
\* registered before any stream was active.
C12_Witness ==
    \E c \in Consumers :
        c \in listeners /\ consumed[c] /\ mark[c] = 1 /\ active

\* C13, the producer part: the finally block of a session that runs while
\* hub.streamer is None changes nothing.
C13_TeardownUnregistered ==
    \A s \in Sessions :
        upc[s] = "closing" /\ upc'[s] = "done" /\ streamer = None
            => /\ streamer' = None
               /\ ~active /\ ~active'
               /\ UNCHANGED <<bytes_total, listeners>>

\* C13: remove_listener twice, or on a queue that is not registered, is
\* remove_listener once; the teardown of a producer session while none is
\* registered changes nothing observable.
C13_IdempotentTeardown ==
    /\ [](\A c \in Consumers :
            /\ RemoveListener(RemoveListener(listeners, c), c)
                   = RemoveListener(listeners, c)
            /\ c \notin listeners => RemoveListener(listeners, c) = listeners)
    /\ [][C13_TeardownUnregistered]_vars

\* C14: no queue of a listener ever holds more than 16 frames.
C14_QueueBound ==
    \A c \in Consumers : Len(queue[c]) <= QueueMaxSize

\* More than 16 frames have been broadcast to a listener that has read
\* none.
C14_Witness ==
    \E c \in Consumers :
        c \in listeners /\ ~consumed[c] /\ nframes - mark[c] > QueueMaxSize

\* C15, a broadcast: every queue registered before it is registered after
\* it and ends with the new frame.
C15_BroadcastStep ==
    nframes' = nframes + 1
        => \A c \in listeners :
               /\ c \in listeners'
               /\ queue'[c] # <<>>
               /\ queue'[c][Len(queue'[c])] = nframes'

\* C15: a broadcast never waits, whatever the queues hold, and leaves the
\* new frame last in every queue that was registered when it began.
C15_NewestAdmitted ==
    /\ [](upc["s1"] = "recv" /\ nframes < MaxFrames
            => ENABLED UplinkFrame("s1", TRUE, MaxFrames))
    /\ [][C15_BroadcastStep]_vars

\* A broadcast has met a full queue, and the new frame is in it.
C15_Witness ==
    \E c \in Consumers :
        c \in listeners /\ nframes \in contended /\ queue[c] = <<nframes>>

\* A producer is registered and its socket is not closed.
ProducerConnected ==
    streamer # None /\ ~closed[streamer]

\* The uptime the specification defines: since started_at while active.
UptimeAt(t) ==
    IF active THEN t - started_at ELSE 0

\* C16, an iteration of the reporter: with a connected producer it pushes
\* to that producer the current listeners, bytes_total, active and uptime;
\* with none it sends nothing.
C16_ReporterStep ==
    reporter = "ready" /\ reporter' # "ready"
        => /\ report'.at = now
           /\ IF ProducerConnected
              THEN /\ report'.outcome \in {"sent", "failed"}
                   /\ report'.to = streamer
                   /\ report'.listeners = Cardinality(listeners)
                   /\ report'.bytes_total = bytes_total
                   /\ report'.active = active
                   /\ report'.uptime_sec = UptimeAt(now)
              ELSE report'.outcome = "idle"

\* C16: on every tick of the reporter a stats message is pushed to the
\* producer if one is registered and not closed, whether or not the stream
\* is active, and nothing is sent otherwise; nothing else pushes stats.
C16_PeriodicStats ==
    [][C16_ReporterStep /\ (report' # report => reporter = "ready")]_vars

\* A stats message went to a producer that has sent no frame yet.
C16_Witness ==
    /\ report.outcome = "sent" /\ report.to = "s1" /\ ~report.active
    /\ upc["s1"] = "recv" /\ ~ack_sent["s1"] /\ nframes = 0

\* C17, an iteration of the reporter whose send fails: the task goes back
\* to sleep and nothing of the hub, the sessions or the queues changes.
C17_FailureStep ==
    reporter = "ready" /\ report' # report /\ report'.outcome = "failed"
        => /\ reporter' = "sleeping"
           /\ UNCHANGED <<hubVars, listenVars, uplinkVars, frameVars>>

\* C17, the iteration after a failed one: it is on a later tick.
C17_NextStep ==
    report.outcome = "failed" /\ report' # report
        => report'.at > report.at /\ report'.prev = "failed"

\* C17: a failed push does not end the reporter, is not retried within the
\* tick, changes nothing of the hub and the sessions, and the reporter
\* runs again on the next tick.
C17_PushFailureSwallowed ==
    /\ [](report.outcome = "failed" => reporter \in {"sleeping", "ready"})
    /\ [](reporter = "ready" => ENABLED ReporterWake(TRUE))
    /\ [][C17_FailureStep /\ C17_NextStep]_vars

\* After a failed push, on a later tick, a stats message went to the
\* producer, still in its receive loop.
C17_Witness ==
    /\ report.prev = "failed" /\ report.outcome = "sent"
    /\ report.to = "s1" /\ upc["s1"] = "recv"

\* C18, a "ping": it changes nothing of the hub, the queues and the ack.
C18_PingStep ==
    pings' # pings
        => UNCHANGED <<bytes_total, active, started_at, listeners, queue,
                       ack_sent, acks, nframes>>

\* C18 as stated: every "ping" received has been answered by exactly one
\* "pong", and handling it changes nothing else.
C18_EveryPingAnswered ==
    /\ [](\A s \in Sessions : pongs[s] = pings[s])
    /\ [][C18_PingStep]_vars

\* C18: every "ping" received is answered by exactly one "pong", unless
\* the send of the "pong" raises, which ends the session; handling a
\* "ping" changes nothing of the hub, the queues and the ack.
C18_PingPongUnlessSendFails ==
    /\ [](\A s \in Sessions :
            \/ pongs[s] = pings[s]
            \/ /\ pings[s] = pongs[s] + 1
               /\ upc[s] \in {"closing", "done"}
               /\ uexit[s] = "exception")
    /\ [][C18_PingStep]_vars

\* Two "ping" were answered, one before and one after the first frame.
C18_Witness ==
    /\ pings["s1"] = 2 /\ pongs["s1"] = 2
    /\ pong_phases["s1"] = {"before", "after"}
    /\ upc["s1"] = "recv"

\* C19, a call of stats(): the dict it returns and what it leaves alone.
C19_StatsStep ==
    stats_reply' # stats_reply
        => /\ stats_reply'.listeners = Cardinality(listeners)
           /\ stats_reply'.active = active
           /\ stats_reply'.bytes_total = bytes_total
           /\ stats_reply'.uptime_sec = UptimeAt(now)
           /\ UNCHANGED <<hubVars, listenVars, uplinkVars, frameVars>>

\* C19: stats() reports the number of registered listeners, the active
\* flag, bytes_total, and an uptime of 0 while not active and of
\* now - started_at while active; it changes no field of the hub.
C19_StatsPureRead ==
    /\ [](Stats(now).uptime_sec = UptimeAt(now)
            /\ Stats(now).listeners = Cardinality(listeners))
    /\ [][C19_StatsStep]_vars

\* stats() was called during a stream with a listener, some time after
\* its first frame.
C19_Witness ==
    /\ stats_reply.active /\ stats_reply.uptime_sec > 0
    /\ stats_reply.listeners = 1

\* C20: active is set exactly when started_at is.
C20_ActiveIffStarted ==
    active <=> started_at # NoTime

\* C21: the finally block of a session that hub.streamer does not refer to
\* leaves streamer, active, started_at, bytes_total and the registry as
\* they are.
C21_StaleTeardownNoOp ==
    [][\A s \in Sessions :
          upc[s] = "closing" /\ upc'[s] = "done" /\ streamer # s
              => UNCHANGED hubVars]_vars

\* C22: while the registered session is in its receive loop and has had
\* its first frame processed, active is true.
C22_ActiveWhileStreaming ==
    \A s \in Sessions :
        streamer = s /\ upc[s] = "recv" /\ ack_sent[s] => active

\* C23, the step that sends an ack: the frame's bytes are added to
\* bytes_total in it, before the ack.
C23_AckStep ==
    acks' # acks => bytes_total' > bytes_total

\* C23, a stats message sent to a producer: if that producer's first
\* frame has been recorded, or if the message says active, the producer
\* has already been sent its ack.
C23_StatsStep ==
    report' # report /\ report'.outcome = "sent"
        => /\ got[report'.to] = "frame" => acks[report'.to] >= 1
           /\ report'.active => acks[report'.to] >= 1

\* C23: the ack of a session is sent after bytes of that session are in
\* bytes_total and before any stats message pushed to its producer after
\* its first frame; no stats message saying active reaches a producer
\* ahead of its ack.
C23_AckBeforeStats ==
    /\ [](\A s \in Sessions : acks[s] >= 1 => bytes_total >= 1)
    /\ [][C23_AckStep /\ C23_StatsStep]_vars

\* C24, a producer is accepted: it becomes hub.streamer, active and
\* started_at are cleared and its ack is pending.
C24_AcceptStep(s) ==
    upc[s] = "prepare" /\ upc'[s] = "recv"
        => /\ streamer' = s
           /\ ~active' /\ started_at' = NoTime
           /\ ~ack_sent'[s]

\* C24, the first frame of a session: it is acknowledged, whatever acks
\* earlier sessions got.
C24_FirstFrameStep(s) ==
    got[s] # "frame" /\ got'[s] = "frame" /\ upc'[s] = "recv"
        => acks[s] = 0 /\ acks'[s] = 1

\* C24: accepting a producer registers it and clears active and
\* started_at; until the first frame of the registered session active is
\* false and the uptime 0; the session gets its own ack on its first
\* frame.
C24_SessionStartResets ==
    /\ [](\A s \in Sessions :
            streamer = s /\ upc[s] = "recv" /\ got[s] # "frame"
                => ~active /\ Uptime(now) = 0)
    /\ [][\A s \in Sessions : C24_AcceptStep(s) /\ C24_FirstFrameStep(s)]_vars

\* How many times the frame f is in the queue q.
Copies(q, f) ==
    Cardinality({i \in 1..Len(q) : q[i] = f})

\* C25, a broadcast: the frame is put once into every queue registered
\* before it and into no other; the registry and the handlers of the
\* consumers are as before.
C25_FanOutStep ==
    nframes' = nframes + 1
        => /\ \A c \in Consumers :
                 Copies(queue'[c], nframes') = IF c \in listeners THEN 1 ELSE 0
           /\ \A c \in Consumers \ listeners : queue'[c] = queue[c]
           /\ listeners' = listeners
           /\ lpc' = lpc

\* C25: a broadcast reaches exactly the queues registered when it starts,
\* once each; joining and leaving never make it fail; a registered queue
\* always belongs to a consumer in its loop, and a consumer in its loop is
\* registered.
C25_FanOutAtomic ==
    /\ [](\A c \in Consumers : c \in listeners <=> lpc[c] = "loop")
    /\ [](\A s \in Sessions : upc[s] = "recv" /\ nframes < MaxFrames
            => ENABLED UplinkFrame(s, TRUE, MaxFrames))
    /\ [][C25_FanOutStep]_vars

\* A frame was broadcast while one consumer was registered and another had
\* left: the first has it, the second has nothing.
C25_Witness ==
    \E c, d \in Consumers :
        /\ c \in listeners /\ Copies(queue[c], nframes) = 1
        /\ lpc[d] = "done" /\ mark[c] < nframes /\ queue[d] = <<>>
        /\ nframes >= 2

\* C26, a consumer handler ends (failed write, cancellation, exception):
\* its queue alone leaves the registry; the other consumers, the hub, the
\* producer and the reporter are as before.
C26_ConsumerExitStep(c) ==
    lpc[c] = "loop" /\ lpc'[c] = "done"
        => /\ listeners' = listeners \ {c}
           /\ \A d \in Consumers \ {c} :
                 /\ queue'[d] = queue[d]
                 /\ lpc'[d] = lpc[d]
                 /\ (d \in listeners' <=> d \in listeners)
           /\ UNCHANGED <<streamer, active, bytes_total, upc, closed, reporter>>

\* C26, a producer session leaves its loop or finishes its finally block:
\* the registry, the consumers' handlers and the reporter are as before.
C26_ProducerExitStep(s) ==
    (upc[s] = "recv" /\ upc'[s] = "closing") \/ (upc[s] = "closing" /\ upc'[s] = "done")
        => /\ listeners' = listeners
           /\ lpc' = lpc
           /\ reporter' = reporter

\* C26: the end of one consumer session removes only its own queue and
\* changes nothing of the other consumers, the hub, the producer and the
\* reporter; the end of a producer session leaves every listener
\* registered.
C26_FailureContained ==
    [][/\ \A c \in Consumers : C26_ConsumerExitStep(c)
       /\ \A s \in Sessions : C26_ProducerExitStep(s)]_vars

\* A consumer's write has failed during a stream; another consumer is
\* still registered with frames queued, the producer is streaming and the
\* reporter alive.
C26_Witness ==
    \E c, d \in Consumers :
        /\ lexit[c] = "write_failure" /\ lpc[c] = "done"
        /\ d \in listeners /\ queue[d] # <<>>
        /\ upc["s1"] = "recv" /\ active
        /\ reporter # "stopped" /\ report.outcome = "sent"

\* C27, a consumer registers: its queue is empty, and mark[c] is the
\* number of frames broadcast before.
C27_JoinStep(c) ==
    lpc[c] = "idle" /\ lpc'[c] = "loop"
        => queue'[c] = <<>> /\ mark'[c] = nframes /\ ~consumed'[c]

\* C27, a frame is written to a consumer: it is later in the stream than
\* the registration of the consumer and than any frame written before.
C27_WriteStep(c) ==
    lpc[c] = "loop" /\ lpc'[c] = "loop" /\ mark'[c] # mark[c]
        => /\ consumed'[c]
           /\ mark'[c] = Head(queue[c])
           /\ mark'[c] > mark[c]

\* C27: a new queue is empty, and every frame queued for or written to a
\* consumer was broadcast after its registration.
C27_LivePointForward ==
    /\ [](\A c \in Consumers :
            lpc[c] = "loop" => mark[c] <= nframes /\ \A f \in Queued(c) : f > mark[c])
    /\ [][\A c \in Consumers : C27_JoinStep(c) /\ C27_WriteStep(c)]_vars

\* A consumer registered after frames had been broadcast and has only
\* later frames in its queue.
C27_Witness ==
    \E c \in Consumers :
        /\ c \in listeners /\ ~consumed[c] /\ mark[c] >= 2
        /\ queue[c] # <<>> /\ Head(queue[c]) = mark[c] + 1

\* C28, the cleanup: nothing of the hub, the sessions and the queues
\* changes.
C28_CancelStep ==
    cleanup' # cleanup
        => UNCHANGED <<hubVars, listenVars, uplinkVars, frameVars>>

\* C28, a reporter that has ended: it stays ended and sends nothing.
C28_StoppedStep ==
    reporter = "stopped" => reporter' = "stopped" /\ report' = report

\* C28: the cleanup of the application can cancel the reporter wherever
\* it waits; the reporter then has ended, for good, and neither the hub
\* nor a session has changed.
C28_ReporterCancellation ==
    /\ [](cleanup => reporter = "stopped")
    /\ [](~cleanup => ENABLED ReporterCancel)
    /\ [][C28_CancelStep /\ C28_StoppedStep]_vars

\* The application has cleaned up during a stream with a listener, after
\* a stats message: the reporter has ended, the stream goes on.
C28_Witness ==
    /\ cleanup /\ reporter = "stopped"
    /\ report.outcome = "sent" /\ report.at = now
    /\ upc["s1"] = "recv" /\ active /\ listeners # {}

\* C29, a broadcast that finds the queue of a listener full: afterwards
\* the queue holds the new frame and nothing else.
C29_OverflowStep ==
    nframes' = nframes + 1
        => \A c \in listeners :
               Len(queue[c]) = QueueMaxSize
                   => /\ queue'[c] = <<nframes'>>
                      /\ \A i \in 1..QueueMaxSize : queue[c][i] \notin Queued(c)'

\* C29, the frames a consumer misses: between the last frame written to it
\* (or its registration) and the next one in its queue lie whole queues
\* of 16 frames, or nothing.
C29_SkipsWholeQueues ==
    \A c \in Consumers :
        lpc[c] = "loop" /\ queue[c] # <<>>
            => (Head(queue[c]) - mark[c] - 1) % QueueMaxSize = 0

\* C29: a broadcast on a full queue leaves in it exactly the new frame;
\* the consumer is next written that frame, having skipped all 16 that
\* were queued.
C29_OverflowDrains ==
    []C29_SkipsWholeQueues /\ [][C29_OverflowStep]_vars

\* A consumer that had read nothing was written frame 17 first.
C29_Witness ==
    \E c \in Consumers :
        /\ c \in listeners /\ consumed[c]
        /\ mark[c] = QueueMaxSize + 1 /\ contended = {QueueMaxSize + 1}
        /\ nframes = QueueMaxSize + 1

\* C30, an empty binary message: nothing of the hub, the queues, the
\* frame count and the ack changes, and the session goes on.
C30_EmptyStep(s) ==
    got[s] # "empty" /\ got'[s] = "empty"
        => /\ UNCHANGED <<hubVars, queue, nframes, ack_sent, acks>>
           /\ upc'[s] = "recv"

\* C30, the first non-empty frame of a session: it is broadcast and, the
\* session going on, acknowledged.
C30_FirstFrameStep(s) ==
    got[s] # "frame" /\ got'[s] = "frame"
        => /\ nframes' = nframes + 1 /\ bytes_total' > bytes_total /\ active'
           /\ upc'[s] = "recv" => acks[s] = 0 /\ acks'[s] = 1

\* C30: an empty binary message is not broadcast, adds nothing to
\* bytes_total, sets neither active nor started_at and leaves the ack
\* pending; a session that has sent only empty messages has no ack; the
\* ack is sent on the first non-empty frame.
C30_EmptyIgnored ==
    /\ [](\A s \in Sessions : got[s] # "frame" => acks[s] = 0 /\ ~ack_sent[s])
    /\ [][\A s \in Sessions : C30_EmptyStep(s) /\ C30_FirstFrameStep(s)]_vars

\* A registered session has sent an empty binary message and nothing
\* else, while a consumer listens: no frame, no byte, no ack, not active.
C30_Witness ==
    /\ got["s1"] = "empty" /\ upc["s1"] = "recv" /\ streamer = "s1"
    /\ acks["s1"] = 0 /\ ~active /\ started_at = NoTime
    /\ bytes_total = 0 /\ nframes = 0
    /\ \E c \in listeners : queue[c] = <<>>

\* C31: active is true only while a producer is registered.
C31_ActiveImpliesStreamer ==
    active => streamer # None

\* C32, the finally block of a session: it clears hub.streamer if that is
\* the session itself and leaves it alone otherwise.
C32_TeardownStep(s) ==
    upc[s] = "closing" /\ upc'[s] = "done"
        => streamer' = IF streamer = s THEN None ELSE streamer

\* C32: a teardown never clears the registration of another session, and
\* nothing but a session's own teardown clears hub.streamer.
C32_OwnRegistrationOnly ==
    [][/\ \A s \in Sessions : C32_TeardownStep(s)
       /\ streamer # None /\ streamer' = None
            => upc[streamer] = "closing" /\ upc'[streamer] = "done"]_vars

\* The older session has finished its teardown after the newer one had
\* its first frame acknowledged (active is false again), and hub.streamer
\* still is the newer session, which goes on.
C32_Witness ==
    /\ upc["s1"] = "done" /\ got["s1"] = "frame"
    /\ streamer = "s2" /\ upc["s2"] = "recv" /\ ack_sent["s2"]
    /\ ~active

\* C33, a broadcast: the registry is as before.
C33_BroadcastStep ==
    nframes' = nframes + 1 => listeners' = listeners

\* C33, a queue leaves the registry: its own handler has ended.
C33_RemoveStep ==
    \A c \in listeners \ listeners' : lpc[c] = "loop" /\ lpc'[c] = "done"

\* C33: the 'dead' list of broadcast is always empty; a broadcast removes
\* no queue from the registry, which shrinks only when a consumer handler
\* ends and removes its own queue.
C33_BroadcastNeverEvicts ==
    /\ [](DeadQueues(listeners, queue) = {})
    /\ [](BroadcastListeners(listeners, queue) = listeners)
    /\ [][C33_BroadcastStep /\ C33_RemoveStep]_vars

\* Both consumers are still registered after a broadcast that found a full
\* queue.
C33_Witness ==
    /\ listeners = Consumers
    /\ nframes \in contended
    /\ \E c \in Consumers : queue[c] = <<nframes>> /\ ~consumed[c]

====
